---- MODULE Spec2Model ----
(***************************************************************************)
(* Transaction tracker, auto-send driver and statistics of the dashboard   *)
(* page (src/src/app/page.tsx).                                            *)
(*                                                                         *)
(* The page is a React component.  Its state cells (useState) are the      *)
(* variables wallet, nonce, balance, autoSend, pendingTxs, confirmedTxs;   *)
(* isPolling is a ref.  Handlers and timer callbacks are closures over the *)
(* values of the last render, kept in `rendered`: a state update reaches   *)
(* the closures (and re-arms the effects' timers) only at the next render. *)
(* A state update made inside a click handler is rendered synchronously    *)
(* when the handler yields (React flushes discrete events); an update made *)
(* from a timer callback or after an await is rendered later, as the       *)
(* separate step Render.  Every await is a suspension point: the code      *)
(* between two awaits is one action.                                       *)
(*                                                                         *)
(* A JavaScript Map is a sequence of entries [k, v] in insertion order.    *)
(***************************************************************************)
EXTENDS Integers, Sequences, FiniteSets, TLC

\* ---------------------------------------------------------------- bounds
\* Number of handleSend invocations explored.
MaxIssues == 2
\* Largest clock value explored; the clock counts from the first handleSend.
MaxTime == 1
\* Number of wallets handleAirdrop may create.
MaxWallets == 1
\* Size of the confirmed window: the literal 100 of page.tsx:111, scaled
\* down so that trimming happens within the explored runs.
WindowSize == 1
\* Size of the statistics sub-window: the literal 50 of page.tsx:22, scaled
\* down so that confirmed windows larger than it are explored.
StatsWindow == 3
\* Statistics inputs: sequence numbers 0..MaxStatsNonce, latencies
\* 0..MaxLatency, 0..MaxStatsPending pending records.
MaxStatsNonce == 4
MaxLatency == 2
MaxStatsPending == 1
\* Gateway inputs: URLs 1..MaxUrls, block numbers 0..MaxBlockNumber, at most
\* MaxAssignments entries in futureGateways.
MaxUrls == 3
MaxBlockNumber == 2
MaxAssignments == 3
\* Registry store: updateData and measurePing invocations explored, the
\* largest clock value, the registry's head block at a poll, and the URLs
\* 1..MaxRegistered the registry may list.
MaxPolls == 3
MaxPings == 3
MaxStoreTime == 1
MaxHead == 1
MaxRegistered == 2
\* Length of a ping history: the literal 10 of registryStore.ts:84, scaled
\* down so that histories overflow within the explored runs.
MaxSamples == 2
\* Number of registry_futureGateway calls of a poll: the literal 60 of
\* registryStore.ts:122, scaled down.
LookAhead == 2

VARIABLES
    wallet,        \* useState wallet: 0 is null, otherwise the wallet's id
    nonce,         \* useState nonce
    balance,       \* useState balance: 0, or 1 for any positive balance
    autoSend,      \* useState autoSend
    pendingTxs,    \* useState pendingTxs: Map nonce -> [hash, sendTimeMs]
    confirmedTxs,  \* useState confirmedTxs: Map nonce -> TxInfo with receipt
    isPolling,     \* useRef isPolling
    rendered,      \* the state values captured by the last render's closures
    stats,         \* the calculateStats result last displayed
    sweeps,        \* receipt-polling callbacks suspended on a lookup
    sends,         \* handleSend invocations suspended on sign or broadcast
    airdrop,       \* handleAirdrop invocation: its suspension point
    walletCount,   \* wallets created so far (Wallet.createRandom)
    issueCount,    \* handleSend invocations so far
    funded,        \* ledger: wallets whose funding transaction is mined
    mempool,       \* ledger: hashes accepted by broadcast
    receipts,      \* ledger: the mined transactions' hashes, one block each
    now,           \* Date.now()
    ev,            \* history: the operation of the last step
    used,          \* history: sequence numbers handleSend has used so far
    reused,        \* history: some handleSend signed with a (wallet, number) used before
    increasing,    \* history: every handleSend used a number above all earlier ones
    failed,        \* history: the (wallet, number) of the handleSend calls that threw
    inserted,      \* history: sequence numbers inserted into pendingTxs
    trimmed,       \* history: sequence numbers trimmed out of confirmedTxs
    gateways,         \* useState gateways: the Gateway list last fetched
    futureGateways,   \* useState futureGateways: the assignments last fetched
    currentBlock,     \* useState currentBlock
    table,            \* the gateway table last rendered
    data,             \* RegistryStore.data
    pingIntervals,    \* RegistryStore.pingIntervals: URLs with an armed ping timer
    pingMeasurements, \* RegistryStore.pingMeasurements: URL -> samples
    polls,            \* updateData invocations suspended on their fetches
    pings,            \* measurePing invocations suspended on their fetch
    pollCount,        \* updateData invocations so far
    pingCount         \* measurePing invocations so far

vars == <<wallet, nonce, balance, autoSend, pendingTxs, confirmedTxs,
          isPolling, rendered, stats, sweeps, sends, airdrop, walletCount,
          issueCount, funded, mempool, receipts, now, ev, used, reused,
          increasing, failed, inserted, trimmed, gateways, futureGateways,
          currentBlock, table, data, pingIntervals, pingMeasurements, polls,
          pings, pollCount, pingCount>>

\* The state of the transaction tracker, apart from the clock and ev.
trackerVars == <<wallet, nonce, balance, autoSend, pendingTxs, confirmedTxs,
                 isPolling, rendered, stats, sweeps, sends, airdrop,
                 walletCount, issueCount, funded, mempool, receipts, used,
                 reused, increasing, failed, inserted, trimmed>>

\* The gateway state of the page and the state of the registry store.
pageGatewayVars == <<gateways, futureGateways, currentBlock, table>>
storeVars == <<data, pingIntervals, pingMeasurements, polls, pings,
               pollCount, pingCount>>
registryVars == <<pageGatewayVars, storeVars>>

\* ------------------------------------------------------- JavaScript Map
EmptyMap == << >>

MapKeys(m) == {m[i].k : i \in 1..Len(m)}

MapHas(m, key) == key \in MapKeys(m)

MapGet(m, key) == m[CHOOSE i \in 1..Len(m) : m[i].k = key].v

\* Map.prototype.set: an existing key keeps its position.
MapSet(m, key, val) ==
    IF MapHas(m, key)
    THEN [i \in 1..Len(m) |-> IF m[i].k = key THEN [k |-> key, v |-> val] ELSE m[i]]
    ELSE Append(m, [k |-> key, v |-> val])

\* Map.prototype.delete
MapDelete(m, key) == SelectSeq(m, LAMBDA e : e.k # key)

\* new Map([...a, ...b])
RECURSIVE MapMerge(_, _)
MapMerge(a, b) ==
    IF b = << >> THEN a
    ELSE MapMerge(MapSet(a, Head(b).k, Head(b).v), Tail(b))

\* Array.prototype.sort with the comparator nonceB - nonceA (descending keys).
RECURSIVE InsertDesc(_, _)
InsertDesc(e, s) ==
    IF s = << >> THEN <<e>>
    ELSE IF e.k > Head(s).k THEN <<e>> \o s
    ELSE <<Head(s)>> \o InsertDesc(e, Tail(s))

RECURSIVE SortDesc(_)
SortDesc(s) ==
    IF s = << >> THEN << >>
    ELSE InsertDesc(Head(s), SortDesc(Tail(s)))

\* Array.prototype.slice(0, n)
Slice(s, n) == SubSeq(s, 1, IF Len(s) < n THEN Len(s) ELSE n)

\* ------------------------------------------------------------- the ledger
\* The hash of the fixed self-transfer is determined by signer and nonce.
TxHash(w, n) == <<w, n>>

\* provider.getTransactionReceipt(hash): the receipt's block number, or 0
\* for null.  The i-th mined transaction is in block i.
GetTransactionReceipt(hash) ==
    IF \E i \in 1..Len(receipts) : receipts[i] = hash
    THEN CHOOSE i \in 1..Len(receipts) : receipts[i] = hash
    ELSE 0

\* provider.getTransactionCount(address): transactions of w mined so far.
GetTransactionCount(w) ==
    Cardinality({i \in 1..Len(receipts) : receipts[i][1] = w})

\* --------------------------------------------------------- calculateStats
\* Array.prototype.sort with the comparator a - b (ascending numbers).
RECURSIVE InsertAsc(_, _)
InsertAsc(x, s) ==
    IF s = << >> THEN <<x>>
    ELSE IF x < Head(s) THEN <<x>> \o s
    ELSE <<Head(s)>> \o InsertAsc(x, Tail(s))

RECURSIVE SortAsc(_)
SortAsc(s) ==
    IF s = << >> THEN << >>
    ELSE InsertAsc(Head(s), SortAsc(Tail(s)))

\* Array.prototype.reduce((a, b) => a + b, 0)
RECURSIVE Sum(_)
Sum(s) == IF s = << >> THEN 0 ELSE Head(s) + Sum(Tail(s))

\* Math.round(num / den) for num >= 0, den > 0: halves round up.
Round(num, den) == (2 * num + den) \div (2 * den)

\* calculateStats counting the records of the sub-window instead of the
\* whole confirmed window.
calculateStats_SubWindowCount(confirmed, stillPending) ==
    LET filteredTxs == Slice(SortDesc(confirmed), StatsWindow)
        all == [i \in 1..Len(filteredTxs) |-> filteredTxs[i].v.latencyMs]
        latencies == SelectSeq(all, LAMBDA latency : latency > 0)
        p50 == IF Len(latencies) > 0
               THEN SortAsc(latencies)[(Len(latencies) \div 2) + 1]
               ELSE 0
        avg == IF Len(latencies) > 0
               THEN Round(Sum(latencies), Len(latencies))
               ELSE 0
    IN  [totalTxs |-> Len(filteredTxs) + stillPending,
         confirmedTxs |-> Len(filteredTxs),
         p50Latency |-> p50,
         avgLatency |-> avg]

\* calculateStats without the `latencies.length > 0` guards: on an empty
\* list the indexing yields undefined and the division NaN, written -1.
calculateStats_Unguarded(confirmed, stillPending) ==
    LET filteredTxs == Slice(SortDesc(confirmed), StatsWindow)
        all == [i \in 1..Len(filteredTxs) |-> filteredTxs[i].v.latencyMs]
        latencies == SelectSeq(all, LAMBDA latency : latency > 0)
        p50 == IF Len(latencies) > 0
               THEN SortAsc(latencies)[(Len(latencies) \div 2) + 1]
               ELSE -1
        avg == IF Len(latencies) > 0
               THEN Round(Sum(latencies), Len(latencies))
               ELSE -1
    IN  [totalTxs |-> Len(confirmed) + stillPending,
         confirmedTxs |-> Len(confirmed),
         p50Latency |-> p50,
         avgLatency |-> avg]

\* calculateStats(confirmedTxs, stillPending).  Every record of confirmedTxs
\* carries a latencyMs, so `tx.latencyMs || 0` is the latency itself.
calculateStats(confirmed, stillPending) ==
    LET filteredTxs == Slice(SortDesc(confirmed), StatsWindow)
        all == [i \in 1..Len(filteredTxs) |-> filteredTxs[i].v.latencyMs]
        latencies == SelectSeq(all, LAMBDA latency : latency > 0)
        p50 == IF Len(latencies) > 0
               THEN SortAsc(latencies)[(Len(latencies) \div 2) + 1]
               ELSE 0
        avg == IF Len(latencies) > 0
               THEN Round(Sum(latencies), Len(latencies))
               ELSE 0
    IN  [totalTxs |-> Len(confirmed) + stillPending,
         confirmedTxs |-> Len(confirmed),
         p50Latency |-> p50,
         avgLatency |-> avg]

\* The history variable ev names the last step when it is one the properties
\* speak about, with the sweep's `updated` map as arg; Other otherwise.
Event(op, arg) == [op |-> op, arg |-> arg]

Other == Event("other", << >>)

\* ---------------------------------------------------------- gateway table
\* A URL is a number of 1..MaxUrls; 0 is undefined, the value of
\* `find(...)?.url` when no element matches.  The address of a gateway is
\* only displayed and is left out of the records.
Urls == 1..MaxUrls

\* Array.prototype.find: of the indices whose elements satisfy the test,
\* the first, or 0 when there is none.
FindFirst(matching) ==
    IF matching = {} THEN 0
    ELSE CHOOSE i \in matching : \A j \in matching : i <= j

\* The url of the first assignment, whatever its block number.
currentUrl_Head(future, block) ==
    IF future = << >> THEN 0 ELSE future[1].url

\* futureGateways.find((gw) => gw.blockNumber === currentBlock)?.url
currentUrl(future, block) ==
    LET i == FindFirst({k \in 1..Len(future) : future[k].blockNumber = block})
    IN  IF i = 0 THEN 0 ELSE future[i].url

\* The url of the first later assignment, the current leader's included.
nextUrl_AnyLater(future, block) ==
    LET i == FindFirst({k \in 1..Len(future) : future[k].blockNumber > block})
    IN  IF i = 0 THEN 0 ELSE future[i].url

\* futureGateways.find((gw) => gw.blockNumber > currentBlock &&
\*                             gw.url !== currentUrl)?.url
nextUrl(future, block) ==
    LET i == FindFirst({k \in 1..Len(future) :
                           /\ future[k].blockNumber > block
                           /\ future[k].url # currentUrl(future, block)})
    IN  IF i = 0 THEN 0 ELSE future[i].url

\* The length of the run of the current leader's entries that starts at the
\* entry of the current block.
blocksLeft_Contiguous(future, block) ==
    LET own(i) == /\ future[i].url = currentUrl(future, block)
                  /\ future[i].blockNumber >= block
        first == FindFirst({k \in 1..Len(future) : future[k].blockNumber = block})
    IN  IF first = 0 THEN 0
        ELSE Cardinality({i \in first..Len(future) :
                             \A j \in first..i : own(j)})

\* futureGateways.filter((gw) => gw.url === currentUrl &&
\*                               gw.blockNumber >= currentBlock).length
blocksLeft(future, block) ==
    Cardinality({i \in 1..Len(future) :
                    /\ future[i].url = currentUrl(future, block)
                    /\ future[i].blockNumber >= block})

\* The role cell with Standby shown for every gateway that is not Leader.
Badges_StandbyUnlessLeader(isCurrent, isNext) ==
    (IF isCurrent THEN {"Leader"} ELSE {})
        \cup (IF isNext THEN {"Next"} ELSE {})
        \cup (IF ~isCurrent THEN {"Standby"} ELSE {})

\* The badges of a gateway's role cell: {isCurrent && Leader},
\* {isNext && Next}, {!isCurrent && !isNext && Standby}.
Badges(isCurrent, isNext) ==
    (IF isCurrent THEN {"Leader"} ELSE {})
        \cup (IF isNext THEN {"Next"} ELSE {})
        \cup (IF ~isCurrent /\ ~isNext THEN {"Standby"} ELSE {})

\* The body of the gateway table: the three values computed from
\* futureGateways and currentBlock, and one row per gateway.
GatewayTable(gws, future, block) ==
    [currentUrl |-> currentUrl(future, block),
     nextUrl |-> nextUrl(future, block),
     blocksLeft |-> blocksLeft(future, block),
     rows |-> [i \in 1..Len(gws) |->
                  [url |-> gws[i].url,
                   badges |-> Badges(currentUrl(future, block) = gws[i].url,
                                     nextUrl(future, block) = gws[i].url)]]]

\* The page's gateway state after the first render: nothing fetched yet.
GatewaysInit ==
    /\ gateways = << >>
    /\ futureGateways = << >>
    /\ currentBlock = 0
    /\ table = GatewayTable(<< >>, << >>, 0)

\* --------------------------------------------------------- registry store
\* The Gateway objects of a list: their URLs.
GatewayUrls(gws) == {gws[i].url : i \in 1..Len(gws)}

\* The registry's answers.  registry_registeredGateways: a list of gateways
\* (fresh objects without ping), here in ascending URL order.
RECURSIVE RegisteredOf(_)
RegisteredOf(urls) ==
    IF urls = {} THEN << >>
    ELSE LET u == CHOOSE x \in urls : \A y \in urls : x <= y
         IN  <<[url |-> u]>> \o RegisteredOf(urls \ {u})

RegisteredLists == {RegisteredOf(urls) : urls \in SUBSET Urls}

\* registry_futureGateway(blocks): the block `blocks` ahead of the
\* registry's head at the time of the call, and the gateway leading it.
\* The leaders rotate through the URLs.
fetchFutureGateway(head, blocks) ==
    [blockNumber |-> head + blocks, url |-> ((head + blocks) % MaxUrls) + 1]

\* futureResults.sort((a, b) => a.blockNumber - b.blockNumber)
RECURSIVE InsertByBlock(_, _)
InsertByBlock(e, s) ==
    IF s = << >> THEN <<e>>
    ELSE IF e.blockNumber < Head(s).blockNumber THEN <<e>> \o s
    ELSE <<Head(s)>> \o InsertByBlock(e, Tail(s))

RECURSIVE SortByBlock(_)
SortByBlock(s) ==
    IF s = << >> THEN << >>
    ELSE InsertByBlock(Head(s), SortByBlock(Tail(s)))

\* The store after construction: the constructor has called startPolling,
\* whose first updateData is suspended on its fetches.
StoreInit ==
    /\ data = [lastUpdated |-> 0, gateways |-> << >>, futureGateways |-> << >>]
    /\ pingIntervals = {}
    /\ pingMeasurements = << >>
    /\ polls = 1
    /\ pings = {}
    /\ pollCount = 1
    /\ pingCount = 0

\* The clock of the server process advances.
StoreTick ==
    /\ now < MaxStoreTime
    /\ now' = now + 1
    /\ ev' = Other
    /\ UNCHANGED <<trackerVars, pageGatewayVars, storeVars>>

\* The 20 s timer of startPolling calls updateData, which starts its
\* fetches and suspends.  Nothing keeps two invocations from overlapping.
PollTick ==
    /\ pollCount < MaxPolls
    /\ polls' = polls + 1
    /\ pollCount' = pollCount + 1
    /\ ev' = Other
    /\ UNCHANGED <<trackerVars, pageGatewayVars, now, data, pingIntervals,
                   pingMeasurements, pings, pingCount>>

\* updateData after its Promise.all resolved with the gateway list
\* registered and the assignments future: sort, start the ping timers of
\* new URLs, clear timer and samples of the URLs no longer registered,
\* replace the snapshot.
PollSucceeded(registered, future) ==
    /\ polls > 0
    /\ polls' = polls - 1
    /\ pingIntervals' = GatewayUrls(registered)
    /\ pingMeasurements' =
           [u \in DOMAIN pingMeasurements \ (pingIntervals \ GatewayUrls(registered))
               |-> pingMeasurements[u]]
    /\ data' = [lastUpdated |-> now,
                gateways |-> registered,
                futureGateways |-> SortByBlock(future)]
    /\ ev' = Event("pollSucceeded", << >>)
    /\ UNCHANGED <<trackerVars, pageGatewayVars, now, pings, pollCount,
                   pingCount>>

\* The snapshot a failed poll leaves: the catch block only logs.
DataAfterFailedPoll_Cleared ==
    [data EXCEPT !.gateways = << >>]

DataAfterFailedPoll == data

\* updateData when one of its fetches rejected: Promise.all rejects and the
\* catch block runs.
PollFailed ==
    /\ polls > 0
    /\ polls' = polls - 1
    /\ data' = DataAfterFailedPoll
    /\ ev' = Event("pollFailed", << >>)
    /\ UNCHANGED <<trackerVars, pageGatewayVars, now, pingIntervals,
                   pingMeasurements, pings, pollCount, pingCount>>

\* The 1 s timer of startPingMeasurement(url) calls measurePing(url), which
\* reads the clock and suspends on its fetch.
PingTick(url) ==
    /\ url \in pingIntervals
    /\ pingCount < MaxPings
    /\ [url |-> url, start |-> now] \notin pings
    /\ pings' = pings \cup {[url |-> url, start |-> now]}
    /\ pingCount' = pingCount + 1
    /\ ev' = Other
    /\ UNCHANGED <<trackerVars, pageGatewayVars, now, data, pingIntervals,
                   pingMeasurements, polls, pollCount>>

\* measurements.push(ping) without the shift.
PushSample_NoShift(measurements, ping) ==
    Append(measurements, ping)

\* measurements.push(ping); if (measurements.length > 10) measurements.shift()
PushSample(measurements, ping) ==
    LET pushed == Append(measurements, ping)
    IN  IF Len(pushed) > MaxSamples THEN Tail(pushed) ELSE pushed

\* this.data.gateways.map(gw => gw.url === url ? {...gw, ping: avg} : gw)
WithPing(gws, url, measurements) ==
    [i \in 1..Len(gws) |->
        IF gws[i].url = url
        THEN [url |-> gws[i].url,
              ping |-> Round(Sum(measurements), Len(measurements))]
        ELSE gws[i]]

\* measurePing's fetch resolved: updatePingStats(url, Date.now() - start).
PingResolved(p) ==
    /\ p \in pings
    /\ pings' = pings \ {p}
    /\ LET stored == IF p.url \in DOMAIN pingMeasurements
                     THEN pingMeasurements[p.url] ELSE << >>
           measurements == PushSample(stored, now - p.start)
       IN  /\ pingMeasurements' =
                  [u \in DOMAIN pingMeasurements \cup {p.url} |->
                      IF u = p.url THEN measurements ELSE pingMeasurements[u]]
           /\ data' = [data EXCEPT
                          !.gateways = WithPing(@, p.url, measurements)]
           /\ ev' = Event("pingStored",
                          [url |-> p.url, ping |-> now - p.start,
                           full |-> Len(stored) >= MaxSamples])
    /\ UNCHANGED <<trackerVars, pageGatewayVars, now, pingIntervals, polls,
                   pollCount, pingCount>>

\* measurePing's fetch rejected: it returns -1 and updatePingStats returns
\* at once.
PingFailed(p) ==
    /\ p \in pings
    /\ pings' = pings \ {p}
    /\ ev' = Event("pingFailed", [url |-> p.url])
    /\ UNCHANGED <<trackerVars, pageGatewayVars, now, data, pingIntervals,
                   pingMeasurements, polls, pollCount, pingCount>>

\* fetchGateways of the page: GET /api/registry answers with getData(), and
\* the page stores both lists and renders.
GatewaysFetched ==
    /\ gateways' = data.gateways
    /\ futureGateways' = data.futureGateways
    /\ table' = GatewayTable(data.gateways, data.futureGateways, currentBlock)
    /\ ev' = Event("gatewaysFetched", << >>)
    /\ UNCHANGED <<trackerVars, currentBlock, now, storeVars>>

\* fetchGateways when the request or the parse rejects: the catch block
\* only logs.
GatewaysFetchFailed ==
    /\ ev' = Event("gatewaysFetchFailed", << >>)
    /\ UNCHANGED <<trackerVars, pageGatewayVars, now, storeVars>>

\* ------------------------------------------------------------- rendering
\* The statistics panel is rendered only in the branch with a wallet: a
\* render with the wallet w evaluates calculateStats(confirmedTxs,
\* pendingTxs.size) over the state it renders.
Displayed(w, confirmed, pending) ==
    IF w # 0 THEN calculateStats(confirmed, Len(pending)) ELSE stats

\* The values a render captures in the closures it creates.
Snapshot(w, n, b, a, p) ==
    [wallet |-> w, nonce |-> n, balance |-> b, autoSend |-> a, pendingTxs |-> p]

ledgerVars == <<funded, mempool, receipts>>
sendHistory == <<used, reused, increasing, failed>>
mapHistory == <<inserted, trimmed>>

Init ==
    /\ wallet = 0
    /\ nonce = 0
    /\ balance = 0
    /\ autoSend = FALSE
    /\ pendingTxs = EmptyMap
    /\ confirmedTxs = EmptyMap
    /\ isPolling = FALSE
    /\ rendered = Snapshot(0, 0, 0, FALSE, EmptyMap)
    /\ stats = calculateStats(EmptyMap, 0)
    /\ sweeps = << >>
    /\ sends = {}
    /\ airdrop = [stage |-> "idle", w |-> 0, lo |-> 0]
    /\ walletCount = 0
    /\ issueCount = 0
    /\ funded = {}
    /\ mempool = {}
    /\ receipts = << >>
    /\ now = 0
    /\ ev = Other
    /\ used = {}
    /\ reused = FALSE
    /\ increasing = TRUE
    /\ failed = {}
    /\ inserted = {}
    /\ trimmed = {}
    /\ GatewaysInit
    /\ StoreInit

\* Date.now() advances.  Only differences of clock values are read, so the
\* clock is counted from the first handleSend.
Tick ==
    /\ issueCount > 0
    /\ now < MaxTime
    /\ now' = now + 1
    /\ ev' = Other
    /\ UNCHANGED registryVars
    /\ UNCHANGED <<wallet, nonce, balance, autoSend, pendingTxs, confirmedTxs,
                   isPolling, rendered, stats, sweeps, sends, airdrop, walletCount,
                   issueCount, ledgerVars, sendHistory, mapHistory>>

\* React renders the queued state updates: the closures (handleSend, the
\* interval callbacks) are re-created over the current state and the effects
\* whose dependencies changed tear down and re-arm their timers.
Render ==
    /\ \/ rendered # Snapshot(wallet, nonce, balance, autoSend, pendingTxs)
       \/ stats # Displayed(wallet, confirmedTxs, pendingTxs)
    /\ rendered' = Snapshot(wallet, nonce, balance, autoSend, pendingTxs)
    /\ stats' = Displayed(wallet, confirmedTxs, pendingTxs)
    /\ ev' = Other
    /\ UNCHANGED registryVars
    /\ UNCHANGED <<wallet, nonce, balance, autoSend, pendingTxs, confirmedTxs,
                   isPolling, sweeps, sends, airdrop, walletCount, issueCount,
                   ledgerVars, now, sendHistory, mapHistory>>

\* ---------------------------------------------------------- handleAirdrop
\* The "Airdrop ETH" button is rendered only while the rendered wallet is
\* null.
AirdropButtonShown == rendered.wallet = 0

\* Click: Wallet.createRandom(), setWallet(w), then await fetch.
ClickAirdrop ==
    /\ AirdropButtonShown
    /\ walletCount < MaxWallets
    /\ walletCount' = walletCount + 1
    /\ wallet' = walletCount + 1
    /\ airdrop' = [stage |-> "fetch", w |-> walletCount + 1, lo |-> 0]
    /\ rendered' = Snapshot(wallet', nonce, balance, autoSend, pendingTxs)
    /\ stats' = Displayed(wallet', confirmedTxs, pendingTxs)
    /\ ev' = Other
    /\ UNCHANGED registryVars
    /\ UNCHANGED <<nonce, balance, autoSend, pendingTxs, confirmedTxs, isPolling,
                   sweeps, sends, issueCount, ledgerVars, now, sendHistory,
                   mapHistory>>

\* fetch("/api/airdrop") resolves with response.ok: await response.json().
AirdropFetched ==
    /\ airdrop.stage = "fetch"
    /\ airdrop' = [airdrop EXCEPT !.stage = "json"]
    /\ ev' = Other
    /\ UNCHANGED registryVars
    /\ UNCHANGED <<wallet, nonce, balance, autoSend, pendingTxs, confirmedTxs,
                   isPolling, rendered, stats, sweeps, sends, walletCount, issueCount,
                   ledgerVars, now, sendHistory, mapHistory>>

\* response.json() resolves: await provider.waitForTransaction(data.txHash).
AirdropParsed ==
    /\ airdrop.stage = "json"
    /\ airdrop' = [airdrop EXCEPT !.stage = "wait"]
    /\ ev' = Other
    /\ UNCHANGED registryVars
    /\ UNCHANGED <<wallet, nonce, balance, autoSend, pendingTxs, confirmedTxs,
                   isPolling, rendered, stats, sweeps, sends, walletCount, issueCount,
                   ledgerVars, now, sendHistory, mapHistory>>

\* The ledger mines the funding transaction the airdrop route has sent.
MineFunding ==
    /\ airdrop.stage \in {"json", "wait"}
    /\ airdrop.w \notin funded
    /\ funded' = funded \cup {airdrop.w}
    /\ ev' = Other
    /\ UNCHANGED registryVars
    /\ UNCHANGED <<wallet, nonce, balance, autoSend, pendingTxs, confirmedTxs,
                   isPolling, rendered, stats, sweeps, sends, airdrop, walletCount,
                   issueCount, mempool, receipts, now, sendHistory, mapHistory>>

\* waitForTransaction resolves once the funding transaction is mined:
\* await provider.getBalance(w.address).
AirdropMined ==
    /\ airdrop.stage = "wait"
    /\ airdrop.w \in funded
    /\ airdrop' = [airdrop EXCEPT !.stage = "balance"]
    /\ ev' = Other
    /\ UNCHANGED registryVars
    /\ UNCHANGED <<wallet, nonce, balance, autoSend, pendingTxs, confirmedTxs,
                   isPolling, rendered, stats, sweeps, sends, walletCount, issueCount,
                   ledgerVars, now, sendHistory, mapHistory>>

\* getBalance resolves: setBalance(bal), then await
\* provider.getTransactionCount(w.address); lo is the count when it is asked.
AirdropBalance ==
    /\ airdrop.stage = "balance"
    /\ balance' = 1
    /\ airdrop' = [airdrop EXCEPT !.stage = "count",
                                  !.lo = GetTransactionCount(airdrop.w)]
    /\ ev' = Other
    /\ UNCHANGED registryVars
    /\ UNCHANGED <<wallet, nonce, autoSend, pendingTxs, confirmedTxs, isPolling,
                   rendered, stats, sweeps, sends, walletCount, issueCount, ledgerVars,
                   now, sendHistory, mapHistory>>

\* getTransactionCount resolves with a count taken between the request and
\* now: setNonce(currentNonce).
AirdropCount ==
    /\ airdrop.stage = "count"
    /\ \E c \in airdrop.lo .. GetTransactionCount(airdrop.w) :
         nonce' = c
    /\ airdrop' = [stage |-> "idle", w |-> 0, lo |-> 0]
    /\ ev' = Other
    /\ UNCHANGED registryVars
    /\ UNCHANGED <<wallet, balance, autoSend, pendingTxs, confirmedTxs, isPolling,
                   rendered, stats, sweeps, sends, walletCount, issueCount, ledgerVars,
                   now, sendHistory, mapHistory>>

\* The wallet after a catch block that only logs.
WalletAfterAirdropFailure_Kept == wallet

\* The catch block of handleAirdrop: setWallet(null).
WalletAfterAirdropFailure == 0

\* The response is not ok, or one of the awaits rejects: the catch block
\* runs and the handler returns.
AirdropFailed ==
    /\ airdrop.stage # "idle"
    /\ wallet' = WalletAfterAirdropFailure
    /\ airdrop' = [stage |-> "idle", w |-> 0, lo |-> 0]
    /\ ev' = Event("airdropFailed", airdrop.stage)
    /\ UNCHANGED registryVars
    /\ UNCHANGED <<nonce, balance, autoSend, pendingTxs, confirmedTxs, isPolling,
                   rendered, stats, sweeps, sends, walletCount, issueCount, ledgerVars,
                   now, sendHistory, mapHistory>>

\* The balance effect, armed while the rendered wallet is not null:
\* setBalance(await provider.getBalance(wallet.address)).
UpdateBalance ==
    /\ rendered.wallet # 0
    /\ balance' = IF rendered.wallet \in funded THEN 1 ELSE 0
    /\ balance' # balance
    /\ ev' = Other
    /\ UNCHANGED registryVars
    /\ UNCHANGED <<wallet, nonce, autoSend, pendingTxs, confirmedTxs, isPolling,
                   rendered, stats, sweeps, sends, airdrop, walletCount, issueCount,
                   ledgerVars, now, sendHistory, mapHistory>>

\* ------------------------------------------------------------- handleSend
\* The largest sequence number used so far, -1 when there is none.
MaxUsed ==
    IF used = {} THEN -1
    ELSE CHOOSE n \in {u[2] : u \in used} : \A u \in used : u[2] <= n

\* The synchronous head of handleSend, run by the closure of the last
\* render: the transaction takes that render's wallet and nonce,
\* setNonce(n => n + 1) is queued, and the call suspends on signTransaction.
StartSend(auto) ==
    /\ rendered.wallet # 0
    /\ issueCount < MaxIssues
    /\ issueCount' = issueCount + 1
    /\ nonce' = nonce + 1
    /\ sends' = sends \cup {[id |-> issueCount + 1,
                             wallet |-> rendered.wallet,
                             nonce |-> rendered.nonce,
                             stage |-> "sign",
                             sendTimeMs |-> 0,
                             auto |-> auto]}
    /\ used' = used \cup {<<rendered.wallet, rendered.nonce>>}
    /\ reused' = (reused \/ <<rendered.wallet, rendered.nonce>> \in used)
    /\ increasing' = (increasing /\ rendered.nonce > MaxUsed)
    /\ UNCHANGED failed

\* The "Send TX" button, rendered with a wallet and enabled with a positive
\* balance; the click's state update is rendered when the handler suspends.
ClickSend ==
    /\ rendered.balance > 0
    /\ StartSend(FALSE)
    /\ rendered' = Snapshot(wallet, nonce', balance, autoSend, pendingTxs)
    /\ stats' = Displayed(wallet, confirmedTxs, pendingTxs)
    /\ ev' = Other
    /\ UNCHANGED registryVars
    /\ UNCHANGED <<wallet, balance, autoSend, pendingTxs, confirmedTxs, isPolling,
                   sweeps, airdrop, walletCount, ledgerVars, now, mapHistory>>

\* The auto-send effect arms its interval while the rendered autoSend is set
\* and the rendered wallet is not null; a tick awaits handleSend().
AutoSendTick ==
    /\ rendered.autoSend
    /\ StartSend(TRUE)
    /\ ev' = Event("autoSendTick", << >>)
    /\ UNCHANGED registryVars
    /\ UNCHANGED <<wallet, balance, autoSend, pendingTxs, confirmedTxs, isPolling,
                   rendered, stats, sweeps, airdrop, walletCount, ledgerVars, now,
                   mapHistory>>

\* signTransaction resolves: sendTimeMs = Date.now(), and the call suspends
\* on broadcastTransaction.
SendSigned(s) ==
    /\ s.stage = "sign"
    /\ sends' = (sends \ {s}) \cup {[s EXCEPT !.stage = "broadcast",
                                              !.sendTimeMs = now]}
    /\ ev' = Other
    /\ UNCHANGED registryVars
    /\ UNCHANGED <<wallet, nonce, balance, autoSend, pendingTxs, confirmedTxs,
                   isPolling, rendered, stats, sweeps, airdrop, walletCount, issueCount,
                   ledgerVars, now, sendHistory, mapHistory>>

\* The record with the clock read when broadcastTransaction resolves.
PendingRecord_AtResolve(s) ==
    [hash |-> TxHash(s.wallet, s.nonce), sendTimeMs |-> now]

\* {hash: response.hash, sendTimeMs}: sendTimeMs is the constant assigned
\* before the broadcast was awaited.
PendingRecord(s) ==
    [hash |-> TxHash(s.wallet, s.nonce), sendTimeMs |-> s.sendTimeMs]

\* broadcastTransaction resolves with the hash: the setPendingTxs updater
\* puts the record under the nonce the call was started with.  The history
\* field `during` of a suspended sweep collects the numbers inserted since
\* it began.
SendBroadcast(s) ==
    /\ s.stage = "broadcast"
    /\ sends' = sends \ {s}
    /\ pendingTxs' = MapSet(pendingTxs, s.nonce, PendingRecord(s))
    /\ mempool' = mempool \cup {TxHash(s.wallet, s.nonce)}
    /\ inserted' = inserted \cup {s.nonce}
    /\ sweeps' = [i \in 1..Len(sweeps) |->
                      [sweeps[i] EXCEPT !.during = @ \cup {s.nonce}]]
    /\ ev' = Event("inserted", s.nonce)
    /\ UNCHANGED registryVars
    /\ UNCHANGED <<wallet, nonce, balance, autoSend, confirmedTxs, isPolling,
                   rendered, stats, airdrop, walletCount, issueCount, funded,
                   receipts, now, sendHistory, trimmed>>

\* Mutant of AutoSendAfterFailure: the catch block only logs.
AutoSendAfterFailure_Kept == autoSend

\* The catch block of the auto-send interval callback: setAutoSend(false).
AutoSendAfterFailure == FALSE

\* signTransaction or broadcastTransaction rejects and handleSend throws.  A
\* call made by an auto-send tick is caught by the tick; a call made by the
\* button is an unhandled rejection.
SendThrew(s) ==
    /\ s \in sends
    /\ sends' = sends \ {s}
    /\ autoSend' = IF s.auto THEN AutoSendAfterFailure ELSE autoSend
    /\ failed' = failed \cup {<<s.wallet, s.nonce>>}
    /\ ev' = IF s.auto THEN Event("autoSendFailed", << >>) ELSE Other
    /\ UNCHANGED registryVars
    /\ UNCHANGED <<wallet, nonce, balance, pendingTxs, confirmedTxs, isPolling,
                   rendered, stats, sweeps, airdrop, walletCount, issueCount,
                   ledgerVars, now, used, reused, increasing, mapHistory>>

\* The "Auto Send" switch, rendered with a wallet:
\* balance > BigInt(0) && setAutoSend(!autoSend), over the rendered values.
ToggleAutoSend ==
    /\ rendered.wallet # 0
    /\ rendered.balance > 0
    /\ autoSend' = ~rendered.autoSend
    /\ rendered' = Snapshot(wallet, nonce, balance, autoSend', pendingTxs)
    /\ stats' = Displayed(wallet, confirmedTxs, pendingTxs)
    /\ ev' = Event("toggleAutoSend", << >>)
    /\ UNCHANGED registryVars
    /\ UNCHANGED <<wallet, nonce, balance, pendingTxs, confirmedTxs, isPolling,
                   sweeps, sends, airdrop, walletCount, issueCount, ledgerVars,
                   now, sendHistory, mapHistory>>

\* The ledger mines a broadcast transaction, in nonce order per signer, into
\* the next block.
Mine(h) ==
    /\ h \in mempool
    /\ GetTransactionReceipt(h) = 0
    /\ h[2] = GetTransactionCount(h[1])
    /\ receipts' = Append(receipts, h)
    /\ ev' = Other
    /\ UNCHANGED registryVars
    /\ UNCHANGED <<wallet, nonce, balance, autoSend, pendingTxs, confirmedTxs,
                   isPolling, rendered, stats, sweeps, sends, airdrop, walletCount,
                   issueCount, funded, mempool, now, sendHistory, mapHistory>>

\* ------------------------------------------------ receipt polling effect
\* The effect arms its 20 ms interval while the rendered pendingTxs is not
\* empty; the callback iterates that render's pendingTxs.
TimerArmed == Len(rendered.pendingTxs) > 0

\* Mutant of CanStartSweep: the tick does not test the guard.
CanStartSweep_Always == TRUE

\* if (isPolling.current) return;
CanStartSweep == ~isPolling

\* An interval tick.  With the guard set it returns; otherwise it sets the
\* guard and suspends on the lookup of the first entry.
ReconcileTick ==
    /\ TimerArmed
    /\ IF CanStartSweep
       THEN /\ isPolling' = TRUE
            /\ sweeps' = Append(sweeps, [snap |-> rendered.pendingTxs,
                                         idx |-> 1,
                                         updated |-> EmptyMap,
                                         stillPending |-> EmptyMap,
                                         during |-> {}])
            /\ ev' = Other
       ELSE /\ ev' = Event("tickSkipped", << >>)
            /\ UNCHANGED <<isPolling, sweeps>>
    /\ UNCHANGED registryVars
    /\ UNCHANGED <<wallet, nonce, balance, autoSend, pendingTxs, confirmedTxs,
                   rendered, stats, sends, airdrop, walletCount, issueCount,
                   ledgerVars, now, sendHistory, mapHistory>>

\* updated.set(nonce, {...info, blockNumber: rcpt.blockNumber,
\*                     latencyMs: Date.now() - info.sendTimeMs})
Confirmed(info, blockNumber) ==
    [hash |-> info.hash,
     sendTimeMs |-> info.sendTimeMs,
     blockNumber |-> blockNumber,
     latencyMs |-> now - info.sendTimeMs]

\* Mutant of MergeConfirmed: the merged entries are cut without sorting.
MergeConfirmed_Unsorted(prev, updated) ==
    Slice(MapMerge(prev, updated), WindowSize)

\* The setConfirmedTxs updater: merge, sort by nonce descending, keep the
\* first WindowSize.
MergeConfirmed(prev, updated) ==
    Slice(SortDesc(MapMerge(prev, updated)), WindowSize)

\* Mutant of DeleteConfirmed: the updater leaves the confirmed keys in place.
DeleteConfirmed_Keep(prev, updated) == prev

\* The setPendingTxs updater: delete the keys of updated.
RECURSIVE DeleteConfirmed(_, _)
DeleteConfirmed(prev, updated) ==
    IF updated = << >> THEN prev
    ELSE DeleteConfirmed(MapDelete(prev, Head(updated).k), Tail(updated))

\* The sequence s without its i-th element.
RemoveAt(s, i) == SubSeq(s, 1, i - 1) \o SubSeq(s, i + 1, Len(s))

\* Mutant of GuardAfterSweep: the guard is left as the sweep set it.
GuardAfterSweep_NotReleased == isPolling

\* finally { isPolling.current = false }
GuardAfterSweep == FALSE

\* getTransactionReceipt resolves for the entry sweep i is suspended on.  The
\* entry goes to updated or to stillPending; the loop then suspends on the
\* next entry or, after the last one, queues both updaters and the finally
\* block clears the guard.
LookupResolved(i) ==
    LET sw == sweeps[i]
        e == sw.snap[sw.idx]
        rcpt == GetTransactionReceipt(e.v.hash)
        upd == IF rcpt # 0
               THEN MapSet(sw.updated, e.k, Confirmed(e.v, rcpt))
               ELSE sw.updated
        still == IF rcpt # 0
                 THEN sw.stillPending
                 ELSE MapSet(sw.stillPending, e.k, e.v)
    IN  IF sw.idx < Len(sw.snap)
        THEN /\ sweeps' = [sweeps EXCEPT ![i] = [sw EXCEPT !.idx = sw.idx + 1,
                                                          !.updated = upd,
                                                          !.stillPending = still]]
             /\ ev' = Other
             /\ UNCHANGED registryVars
             /\ UNCHANGED <<wallet, nonce, balance, autoSend, pendingTxs,
                            confirmedTxs, isPolling, rendered, stats, sends, airdrop,
                            walletCount, issueCount, ledgerVars, now,
                            sendHistory, mapHistory>>
        ELSE /\ sweeps' = RemoveAt(sweeps, i)
             /\ confirmedTxs' = MergeConfirmed(confirmedTxs, upd)
             /\ pendingTxs' = DeleteConfirmed(pendingTxs, upd)
             /\ isPolling' = GuardAfterSweep
             /\ trimmed' = trimmed \cup
                    ((MapKeys(confirmedTxs) \cup MapKeys(upd)) \ MapKeys(confirmedTxs'))
             /\ ev' = Event("sweepDone", upd)
             /\ UNCHANGED registryVars
             /\ UNCHANGED <<wallet, nonce, balance, autoSend, rendered, stats, sends,
                            airdrop, walletCount, issueCount, ledgerVars, now,
                            sendHistory, inserted>>

\* Mutant of ConfirmedAfterThrow: the receipts obtained before the rejection
\* are merged.
ConfirmedAfterThrow_Merged(updated) == MergeConfirmed(confirmedTxs, updated)

\* The try block has no catch: a rejection skips the setConfirmedTxs call and
\* confirmedTxs stays as it is.
ConfirmedAfterThrow(updated) == confirmedTxs

\* getTransactionReceipt rejects: the exception leaves the loop, the finally
\* block clears the guard, and neither updater is queued.
LookupThrew(i) ==
    /\ sweeps' = RemoveAt(sweeps, i)
    /\ isPolling' = GuardAfterSweep
    /\ confirmedTxs' = ConfirmedAfterThrow(sweeps[i].updated)
    /\ ev' = Event("sweepThrew", sweeps[i].updated)
    /\ UNCHANGED registryVars
    /\ UNCHANGED <<wallet, nonce, balance, autoSend, pendingTxs,
                   rendered, stats, sends, airdrop, walletCount, issueCount,
                   ledgerVars, now, sendHistory, mapHistory>>

Next ==
    \/ Tick
    \/ Render
    \/ ClickAirdrop
    \/ AirdropFetched
    \/ AirdropParsed
    \/ MineFunding
    \/ AirdropMined
    \/ AirdropBalance
    \/ AirdropCount
    \/ AirdropFailed
    \/ UpdateBalance
    \/ ClickSend
    \/ AutoSendTick
    \/ ToggleAutoSend
    \/ \E s \in sends : SendSigned(s)
    \/ \E s \in sends : SendBroadcast(s)
    \/ \E s \in sends : SendThrew(s)
    \/ \E h \in mempool : Mine(h)
    \/ ReconcileTick
    \/ \E i \in 1..Len(sweeps) : LookupResolved(i)
    \/ \E i \in 1..Len(sweeps) : LookupThrew(i)

Spec == Init /\ [][Next]_vars

\* A lookup some sweep is suspended on settles, one way or the other.
LookupSettled ==
    \E i \in 1..Len(sweeps) : LookupResolved(i) \/ LookupThrew(i)

\* The tracker under fair scheduling: React renders after a state update,
\* the setInterval timer of the receipt polling effect keeps firing while it
\* is armed, and an awaited getTransactionReceipt settles.
FairSpec ==
    /\ Spec
    /\ WF_vars(Render)
    /\ WF_vars(ReconcileTick)
    /\ WF_vars(LookupSettled)

\* ----------------------------------------------- calculateStats on its own
\* A confirmed window with the sequence numbers keys and the latencies lat,
\* in the descending order the setConfirmedTxs updater leaves.
RECURSIVE WindowOf(_, _)
WindowOf(keys, lat) ==
    IF keys = {} THEN << >>
    ELSE LET n == CHOOSE k \in keys : \A j \in keys : j <= k
         IN  <<[k |-> n,
                v |-> [hash |-> TxHash(1, n), sendTimeMs |-> 0,
                       blockNumber |-> 1, latencyMs |-> lat[n]]]>>
             \o WindowOf(keys \ {n}, lat)

StatsWindows ==
    UNION {{WindowOf(keys, lat) : lat \in [keys -> 0..MaxLatency]} :
           keys \in SUBSET (0..MaxStatsNonce)}

\* A pendingTxs map of n records.
PendingOf(n) ==
    [i \in 1..n |-> [k |-> MaxStatsNonce + i,
                     v |-> [hash |-> TxHash(1, MaxStatsNonce + i),
                            sendTimeMs |-> 0]]]

\* The page with a funded wallet, any confirmed window and pending count,
\* before the render that displays their statistics.
InitStats ==
    /\ wallet = 1
    /\ nonce = 0
    /\ balance = 1
    /\ autoSend = FALSE
    /\ pendingTxs \in {PendingOf(n) : n \in 0..MaxStatsPending}
    /\ confirmedTxs \in StatsWindows
    /\ isPolling = FALSE
    /\ rendered = Snapshot(1, 0, 1, FALSE, EmptyMap)
    /\ stats = calculateStats(EmptyMap, 0)
    /\ sweeps = << >>
    /\ sends = {}
    /\ airdrop = [stage |-> "idle", w |-> 0, lo |-> 0]
    /\ walletCount = 1
    /\ issueCount = 0
    /\ funded = {1}
    /\ mempool = {}
    /\ receipts = << >>
    /\ now = 0
    /\ ev = Other
    /\ used = {}
    /\ reused = FALSE
    /\ increasing = TRUE
    /\ failed = {}
    /\ inserted = {}
    /\ trimmed = {}
    /\ GatewaysInit
    /\ StoreInit

\* The render evaluates calculateStats(confirmedTxs, pendingTxs.size).
RenderStats ==
    /\ rendered' = Snapshot(wallet, nonce, balance, autoSend, pendingTxs)
    /\ stats' = Displayed(wallet, confirmedTxs, pendingTxs)
    /\ ev' = Event("stats", << >>)
    /\ UNCHANGED registryVars
    /\ UNCHANGED <<wallet, nonce, balance, autoSend, pendingTxs, confirmedTxs,
                   isPolling, sweeps, sends, airdrop, walletCount, issueCount,
                   ledgerVars, now, sendHistory, mapHistory>>

NextStats == RenderStats

SpecStats == InitStats /\ [][NextStats]_vars

\* -------------------------------------------- the gateway table on its own
\* The transaction tracker before any click.
TrackerIdle ==
    /\ wallet = 0
    /\ nonce = 0
    /\ balance = 0
    /\ autoSend = FALSE
    /\ pendingTxs = EmptyMap
    /\ confirmedTxs = EmptyMap
    /\ isPolling = FALSE
    /\ rendered = Snapshot(0, 0, 0, FALSE, EmptyMap)
    /\ stats = calculateStats(EmptyMap, 0)
    /\ sweeps = << >>
    /\ sends = {}
    /\ airdrop = [stage |-> "idle", w |-> 0, lo |-> 0]
    /\ walletCount = 0
    /\ issueCount = 0
    /\ funded = {}
    /\ mempool = {}
    /\ receipts = << >>
    /\ used = {}
    /\ reused = FALSE
    /\ increasing = TRUE
    /\ failed = {}
    /\ inserted = {}
    /\ trimmed = {}

\* The assignment lists the store serves: sorted by block number.
AssignmentLists ==
    {f \in UNION {[1..n -> [blockNumber : 0..MaxBlockNumber, url : Urls]] :
                     n \in 0..MaxAssignments} :
        \A i \in 1..(Len(f) - 1) : f[i].blockNumber <= f[i + 1].blockNumber}

\* The page holding any fetched gateway list, assignment list and block
\* number, before the render that displays them.
InitLeader ==
    /\ TrackerIdle
    /\ now = 0
    /\ ev = Other
    /\ StoreInit
    /\ gateways \in RegisteredLists
    /\ futureGateways \in AssignmentLists
    /\ currentBlock \in 0..MaxBlockNumber
    /\ table = GatewayTable(<< >>, << >>, 0)

\* The render evaluates the body of the gateway table.
RenderGateways ==
    /\ table' = GatewayTable(gateways, futureGateways, currentBlock)
    /\ ev' = Event("gateways", << >>)
    /\ UNCHANGED <<trackerVars, gateways, futureGateways, currentBlock, now,
                   storeVars>>

\* updateBlockNumber: provider.getBlockNumber() resolved with b, the page
\* stores it and renders.
BlockNumberFetched(b) ==
    /\ currentBlock' = b
    /\ table' = GatewayTable(gateways, futureGateways, b)
    /\ ev' = Event("gateways", << >>)
    /\ UNCHANGED <<trackerVars, gateways, futureGateways, now, storeVars>>

NextLeader ==
    \/ RenderGateways
    \/ \E b \in 0..(MaxBlockNumber + 1) : BlockNumberFetched(b)

SpecLeader == InitLeader /\ [][NextLeader]_vars

\* ------------------------------------------- the registry store on its own
InitRegistry ==
    /\ TrackerIdle
    /\ now = 0
    /\ ev = Other
    /\ GatewaysInit
    /\ StoreInit

\* A poll's fetches are answered at one head block of the registry.
NextRegistry ==
    \/ StoreTick
    \/ PollTick
    \/ \E urls \in SUBSET (1..MaxRegistered), head \in 0..MaxHead :
           PollSucceeded(RegisteredOf(urls),
                         [i \in 1..LookAhead |->
                             fetchFutureGateway(head, i - 1)])
    \/ PollFailed
    \/ \E url \in 1..MaxRegistered : PingTick(url)
    \/ \E p \in pings : PingResolved(p)
    \/ \E p \in pings : PingFailed(p)
    \/ GatewaysFetched
    \/ GatewaysFetchFailed

SpecRegistry == InitRegistry /\ [][NextRegistry]_vars

\* ------------------------------------------------------------ properties
PendingKeys == MapKeys(pendingTxs)
ConfirmedKeys == MapKeys(confirmedTxs)

\* C1: as long as the issue calls have used strictly increasing sequence
\* numbers, no sequence number is a key of both pendingTxs and confirmedTxs,
\* and every sequence number that issue has inserted and that has not been
\* trimmed out of the confirmed window is a key of exactly one of them.
C1_ExactlyOneWindow ==
    increasing =>
        /\ PendingKeys \cap ConfirmedKeys = {}
        /\ \A n \in inserted \ trimmed :
               (n \in PendingKeys) # (n \in ConfirmedKeys)

\* Two records issued in increasing order, one moved to confirmed by a sweep
\* and the other still pending.
C1_Witness ==
    /\ increasing
    /\ Cardinality(inserted) = 2
    /\ trimmed = {}
    /\ Len(pendingTxs) = 1
    /\ Len(confirmedTxs) = 1
    /\ ev.op = "sweepDone"

\* C2 (as claimed): a step never changes the latencyMs or blockNumber of a
\* record that is in confirmedTxs before and after it.
C2_ConfirmedImmutable ==
    [][\A n \in ConfirmedKeys :
          MapHas(confirmedTxs', n) =>
              /\ MapGet(confirmedTxs', n).latencyMs = MapGet(confirmedTxs, n).latencyMs
              /\ MapGet(confirmedTxs', n).blockNumber = MapGet(confirmedTxs, n).blockNumber]_vars

\* C3 (as claimed): no handleSend invocation signs with a wallet and
\* sequence number that an earlier invocation has used.
C3_NoSequenceNumberReuse == ~reused

\* C4 (as claimed): a receipt lookup that throws does not abort the sweep.
\* When entries remain the sweep goes on to them; when the failing lookup
\* was the last one, the records for which the sweep got a receipt are
\* moved to confirmedTxs.
C4_LookupFailureDoesNotAbort ==
    [][ev'.op = "sweepThrew" =>
          LET sw == sweeps[1]
          IN  IF sw.idx < Len(sw.snap)
              THEN Len(sweeps') = Len(sweeps)
              ELSE MapKeys(sw.updated) \subseteq MapKeys(confirmedTxs') \ MapKeys(pendingTxs')]_vars

\* C5: at most one sweep is in progress at any time; a tick that finds the
\* guard set happens while a sweep is suspended, changes neither pendingTxs
\* nor confirmedTxs nor the sweep, and leaves the timer armed for a later tick.
C5_SingleSweep ==
    /\ [](Len(sweeps) <= 1)
    /\ [][ev'.op = "tickSkipped" =>
             /\ Len(sweeps) = 1
             /\ UNCHANGED <<pendingTxs, confirmedTxs, sweeps, isPolling>>
             /\ TimerArmed']_vars

\* A tick was skipped while a sweep is suspended on a lookup.
C5_Witness == ev.op = "tickSkipped" /\ Len(sweeps) = 1 /\ isPolling

\* The nonces of set all that are among the n highest.
Highest(all, n) ==
    {a \in all : Cardinality({b \in all : b > a}) < n}

\* C6: confirmedTxs never holds more than WindowSize entries, and a sweep
\* that merges its newly confirmed records keeps exactly the (up to)
\* WindowSize highest sequence numbers among the previous and the new
\* entries, a new entry replacing a previous one with the same number.
C6_ConfirmedWindow ==
    /\ [](Len(confirmedTxs) <= WindowSize)
    /\ [][ev'.op = "sweepDone" =>
             LET upd == ev'.arg
                 all == ConfirmedKeys \cup MapKeys(upd)
             IN  /\ MapKeys(confirmedTxs') = Highest(all, WindowSize)
                 /\ Len(confirmedTxs') = Cardinality(Highest(all, WindowSize))
                 /\ \A n \in MapKeys(confirmedTxs') :
                        MapGet(confirmedTxs', n) =
                            IF MapHas(upd, n) THEN MapGet(upd, n)
                            ELSE MapGet(confirmedTxs, n)]_vars

\* A sweep has merged a new record into a full window and an entry was dropped.
C6_Witness ==
    /\ ev.op = "sweepDone"
    /\ Len(ev.arg) > 0
    /\ Len(confirmedTxs) = WindowSize
    /\ trimmed # {}

\* C7 (as claimed): every record for which a sweep's lookup returned a
\* receipt is, when the sweep ends, out of pendingTxs and in confirmedTxs
\* under the same sequence number, with the hash and sendTimeMs it had, the
\* receipt's block number and the latency stamped when its lookup resolved.
C7_ReceiptMovesRecord ==
    [][ev'.op \in {"sweepDone", "sweepThrew"} =>
          \A n \in MapKeys(ev'.arg) :
              /\ ~MapHas(pendingTxs', n)
              /\ MapHas(confirmedTxs', n)
              /\ MapGet(confirmedTxs', n) = MapGet(ev'.arg, n)]_vars

\* C8: when the handleSend call of an auto-send tick throws, autoSend becomes
\* false in that step, the step starts no new handleSend, and autoSend
\* becomes true again only by the operator's switch.
C8_AutoSendDisabledOnFailure ==
    [][/\ ev'.op = "autoSendFailed" =>
             /\ autoSend' = FALSE
             /\ sends' \subseteq sends
             /\ Cardinality(sends') = Cardinality(sends) - 1
             /\ issueCount' = issueCount
       /\ (~autoSend /\ autoSend') => ev'.op = "toggleAutoSend"]_vars

\* An auto-send tick's call has thrown while autoSend was set.
C8_Witness ==
    /\ ev.op = "autoSendFailed"
    /\ ~autoSend
    /\ rendered.autoSend

\* C9 (as claimed): an auto-send tick starts handleSend only while autoSend
\* is set and a wallet is present.
C9_TickOnlyWhileArmed ==
    ev.op = "autoSendTick" => (autoSend /\ wallet # 0)

\* The sum of the latencies of the confirmed records with the numbers keys.
RECURSIVE LatencySum(_)
LatencySum(keys) ==
    IF keys = {} THEN 0
    ELSE LET n == CHOOSE k \in keys : TRUE
         IN  MapGet(confirmedTxs, n).latencyMs + LatencySum(keys \ {n})

\* C10 (as claimed): the displayed avgLatency is the arithmetic mean, rounded
\* to a nearest integer, of latencyMs over all of the (up to) StatsWindow
\* confirmed records with the highest sequence numbers, latencies of 0
\* included, and 0 when there is none.
C10_AverageOverSubWindow ==
    ev.op = "stats" =>
        LET recent == Highest(ConfirmedKeys, StatsWindow)
            count == Cardinality(recent)
            diff == LatencySum(recent) - stats.avgLatency * count
        IN  IF count = 0 THEN stats.avgLatency = 0
            ELSE 2 * diff <= count /\ -2 * diff <= count

\* C11 (as claimed): the displayed p50Latency is the element at index
\* floor(0.5 * count) of the ascending list of latencyMs of all count records
\* of the sub-window (the StatsWindow highest sequence numbers), latencies
\* of 0 included, and 0 when the sub-window is empty.  The element at index
\* i of an ascending list is the value with at most i smaller and more than
\* i smaller-or-equal members.
C11_MedianOverSubWindow ==
    ev.op = "stats" =>
        LET recent == Highest(ConfirmedKeys, StatsWindow)
            count == Cardinality(recent)
            index == count \div 2
            lat(n) == MapGet(confirmedTxs, n).latencyMs
            below(v) == Cardinality({n \in recent : lat(n) < v})
            upTo(v) == Cardinality({n \in recent : lat(n) <= v})
        IN  IF count = 0 THEN stats.p50Latency = 0
            ELSE /\ below(stats.p50Latency) <= index
                 /\ upTo(stats.p50Latency) > index

\* C12: the displayed confirmedTxs count is the size of the whole confirmed
\* window, not of the StatsWindow sub-window, and totalTxs is that size plus
\* the number of pending records.
C12_CountsOverWholeWindow ==
    ev.op = "stats" =>
        /\ stats.confirmedTxs = Cardinality(ConfirmedKeys)
        /\ stats.totalTxs = Cardinality(ConfirmedKeys) + Cardinality(PendingKeys)

\* Statistics displayed for a confirmed window larger than the sub-window,
\* with a pending record.
C12_Witness ==
    /\ ev.op = "stats"
    /\ Cardinality(ConfirmedKeys) > StatsWindow
    /\ Cardinality(PendingKeys) = 1

\* C13: with an empty confirmed window both latency statistics are 0 for any
\* pending count, and with zero pending as well all four statistics are 0.
C13_DegenerateInput ==
    (ev.op = "stats" /\ confirmedTxs = EmptyMap) =>
        /\ stats.p50Latency = 0
        /\ stats.avgLatency = 0
        /\ stats.confirmedTxs = 0
        /\ stats.totalTxs = Cardinality(PendingKeys)
        /\ (pendingTxs = EmptyMap => stats.totalTxs = 0)

\* Statistics displayed for an empty confirmed window and zero pending.
C13_Witness ==
    /\ ev.op = "stats"
    /\ confirmedTxs = EmptyMap
    /\ pendingTxs = EmptyMap
    /\ stats = [totalTxs |-> 0, confirmedTxs |-> 0,
                p50Latency |-> 0, avgLatency |-> 0]

\* The indices of the assignments of the current block.
AtCurrentBlock ==
    {i \in 1..Len(futureGateways) : futureGateways[i].blockNumber = currentBlock}

\* The least member of a non-empty set of indices.
First(indices) == CHOOSE i \in indices : \A j \in indices : i <= j

\* C14: the rendered currentUrl is the URL of the (first) assignment whose
\* block number equals currentBlock; when there is none it is absent and no
\* row of the gateway table carries the Leader badge.
C14_CurrentLeader ==
    ev.op = "gateways" =>
        IF AtCurrentBlock = {}
        THEN /\ table.currentUrl = 0
             /\ \A r \in 1..Len(table.rows) : "Leader" \notin table.rows[r].badges
        ELSE table.currentUrl = futureGateways[First(AtCurrentBlock)].url

\* A table rendered at a block that has an assignment which is not the first
\* of the list; its gateway is in the table as Leader.
C14_Witness ==
    /\ ev.op = "gateways"
    /\ AtCurrentBlock # {}
    /\ First(AtCurrentBlock) > 1
    /\ futureGateways[1].url # table.currentUrl
    /\ \E r \in 1..Len(table.rows) : "Leader" \in table.rows[r].badges

\* The indices of the assignments after the current block whose URL is not
\* the current leader's.
LaterOthers ==
    {i \in 1..Len(futureGateways) :
        /\ futureGateways[i].blockNumber > currentBlock
        /\ futureGateways[i].url # table.currentUrl}

\* C15: the rendered nextUrl is the URL of the first assignment with a block
\* number above currentBlock and a URL other than currentUrl; it is absent
\* when there is no such assignment, and when present it differs from
\* currentUrl.
C15_NextLeader ==
    ev.op = "gateways" =>
        IF LaterOthers = {}
        THEN table.nextUrl = 0
        ELSE /\ table.nextUrl = futureGateways[First(LaterOthers)].url
             /\ table.nextUrl # table.currentUrl

\* A table whose next leader comes after a further slot of the current
\* leader.
C15_Witness ==
    /\ ev.op = "gateways"
    /\ table.currentUrl # 0
    /\ table.nextUrl # 0
    /\ \E i \in 1..Len(futureGateways) :
           /\ i < First(LaterOthers)
           /\ futureGateways[i].blockNumber > currentBlock

\* C16: the rendered blocksLeft is the number of assignments of the current
\* leader's URL with a block number >= currentBlock, contiguous or not; the
\* assignments [(0,A),(1,A),(2,B)] at block 0 (the spec's example counted
\* from block 100) give currentUrl A, blocksLeft 2, nextUrl B.
C16_RemainingBlocks ==
    ev.op = "gateways" =>
        /\ table.blocksLeft =
               Cardinality({i \in 1..Len(futureGateways) :
                               /\ futureGateways[i].url = table.currentUrl
                               /\ futureGateways[i].blockNumber >= currentBlock})
        /\ (/\ futureGateways = <<[blockNumber |-> 0, url |-> 1],
                                  [blockNumber |-> 1, url |-> 1],
                                  [blockNumber |-> 2, url |-> 2]>>
            /\ currentBlock = 0)
               => /\ table.currentUrl = 1
                  /\ table.blocksLeft = 2
                  /\ table.nextUrl = 2

\* A table for a leader whose two slots are separated by another gateway's.
C16_Witness ==
    /\ ev.op = "gateways"
    /\ futureGateways = <<[blockNumber |-> 0, url |-> 1],
                          [blockNumber |-> 1, url |-> 2],
                          [blockNumber |-> 2, url |-> 1]>>
    /\ currentBlock = 0
    /\ table.blocksLeft = 2

\* C17: the table has one row per gateway, each with exactly one badge:
\* Leader iff its URL is currentUrl, Next iff its URL is nextUrl, Standby
\* otherwise.
C17_ExactlyOneRole ==
    ev.op = "gateways" =>
        /\ Len(table.rows) = Len(gateways)
        /\ \A r \in 1..Len(table.rows) :
               LET row == table.rows[r]
               IN  /\ row.url = gateways[r].url
                   /\ Cardinality(row.badges) = 1
                   /\ "Leader" \in row.badges <=> row.url = table.currentUrl
                   /\ "Next" \in row.badges <=> row.url = table.nextUrl
                   /\ "Standby" \in row.badges <=>
                          (row.url # table.currentUrl /\ row.url # table.nextUrl)

\* A table of three gateways: one Leader, one Next, one Standby.
C17_Witness ==
    /\ ev.op = "gateways"
    /\ Len(table.rows) = 3
    /\ {table.rows[r].badges : r \in 1..3} = {{"Leader"}, {"Next"}, {"Standby"}}

\* C18: the step in which a poll fails leaves data, the ping timers and the
\* ping histories as they were, and a failed fetchGateways of the page
\* leaves the lists it shows as they were.
C18_FailedPollKeepsSnapshot ==
    [][/\ ev'.op = "pollFailed" =>
              UNCHANGED <<data, pingIntervals, pingMeasurements>>
       /\ ev'.op = "gatewaysFetchFailed" =>
              UNCHANGED <<gateways, futureGateways>>]_vars

\* A poll has failed while the store held a snapshot with gateways, ping
\* timers and samples.
C18_Witness ==
    /\ ev.op = "pollFailed"
    /\ data.gateways # << >>
    /\ pingIntervals # {}
    /\ DOMAIN pingMeasurements # {}

\* C19 (as claimed): only registered URLs have stored samples, in every
\* state, also after a ping that was in flight when its URL was removed has
\* completed; and a successful poll keeps the samples of every URL that is
\* registered before and after it.
C19_SamplesFollowRegistration ==
    /\ [](DOMAIN pingMeasurements \subseteq GatewayUrls(data.gateways))
    /\ [][ev'.op = "pollSucceeded" =>
              \A u \in DOMAIN pingMeasurements :
                  (u \in GatewayUrls(data.gateways) \cap GatewayUrls(data'.gateways))
                      => /\ u \in DOMAIN pingMeasurements'
                         /\ pingMeasurements'[u] = pingMeasurements[u]]_vars

\* The last n elements of a sequence.
LastOf(s, n) == SubSeq(s, IF Len(s) > n THEN Len(s) - n + 1 ELSE 1, Len(s))

\* C20: a ping history never holds more than MaxSamples samples; a step
\* changes a stored history only by appending the measurement of a ping that
\* succeeded in that step and keeping the last MaxSamples, and a history
\* disappears only in a successful poll; a failed ping changes no history;
\* and a ping carried by a gateway of the snapshot is the mean of the samples
\* stored for its URL, rounded as Math.round does.
C20_RollingPingAverage ==
    /\ [](\A u \in DOMAIN pingMeasurements :
              Len(pingMeasurements[u]) <= MaxSamples)
    /\ [](\A i \in 1..Len(data.gateways) :
              LET gw == data.gateways[i]
              IN  "ping" \in DOMAIN gw =>
                      /\ gw.url \in DOMAIN pingMeasurements
                      /\ LET m == pingMeasurements[gw.url]
                         IN  /\ Len(m) > 0
                             /\ 2 * Len(m) * gw.ping <= 2 * Sum(m) + Len(m)
                             /\ 2 * Sum(m) + Len(m) < 2 * Len(m) * (gw.ping + 1))
    /\ [][/\ \A u \in DOMAIN pingMeasurements :
                 \/ /\ u \in DOMAIN pingMeasurements'
                    /\ pingMeasurements'[u] = pingMeasurements[u]
                 \/ /\ u \in DOMAIN pingMeasurements'
                    /\ ev'.op = "pingStored"
                    /\ ev'.arg.url = u
                    /\ pingMeasurements'[u] =
                           LastOf(Append(pingMeasurements[u], ev'.arg.ping),
                                  MaxSamples)
                 \/ /\ u \notin DOMAIN pingMeasurements'
                    /\ ev'.op = "pollSucceeded"
          /\ \A u \in DOMAIN pingMeasurements' \ DOMAIN pingMeasurements :
                 /\ ev'.op = "pingStored"
                 /\ ev'.arg.url = u
                 /\ pingMeasurements'[u] = <<ev'.arg.ping>>
          /\ ev'.op = "pingFailed" => UNCHANGED pingMeasurements]_vars

\* A successful ping was stored into a full history, dropping its oldest
\* sample, and the gateway carries the average of the two kept samples,
\* which are different.
C20_Witness ==
    /\ ev.op = "pingStored"
    /\ ev.arg.full
    /\ Len(pingMeasurements[ev.arg.url]) = MaxSamples
    /\ pingMeasurements[ev.arg.url][1] # pingMeasurements[ev.arg.url][2]
    /\ \E i \in 1..Len(data.gateways) :
           /\ data.gateways[i].url = ev.arg.url
           /\ "ping" \in DOMAIN data.gateways[i]

\* C21: the step in which the funding flow fails, at whichever await, sets
\* the wallet to null and ends the handler; and once a null wallet is
\* rendered the Airdrop button is shown again.
C21_FundingFailureResetsWallet ==
    /\ [][ev'.op = "airdropFailed" =>
              /\ wallet' = 0
              /\ airdrop'.stage = "idle"]_vars
    /\ []((wallet = 0 /\ rendered.wallet = wallet) => AirdropButtonShown)

\* The funding flow has failed at its last await, after the balance was
\* stored, and the wallet is null.
C21_Witness ==
    /\ ev.op = "airdropFailed"
    /\ ev.arg = "count"
    /\ balance = 1
    /\ wallet = 0

\* C22 (as claimed): the step in which a sweep finishes leaves in pendingTxs,
\* unchanged, every record that handleSend inserted while that sweep was
\* suspended, and removes only sequence numbers the sweep has confirmed.
C22_InsertsSurviveSweep ==
    [][ev'.op = "sweepDone" =>
          /\ \A i \in 1..Len(sweeps) : \A n \in sweeps[i].during :
                 /\ MapHas(pendingTxs', n)
                 /\ MapGet(pendingTxs', n) = MapGet(pendingTxs, n)
          /\ PendingKeys \ MapKeys(pendingTxs') \subseteq MapKeys(ev'.arg)]_vars

\* The sweep in progress has obtained a receipt for sequence number n.
ReceiptObtained(n) ==
    \E i \in 1..Len(sweeps) : MapHas(sweeps[i].updated, n)

\* C23 (as claimed): under fair scheduling of the reconciliation timer, a
\* pending record whose lookup keeps returning a receipt eventually leaves
\* pendingTxs for confirmedTxs, whatever the lookups of the other records do.
C23_ReceiptLeadsToConfirmed ==
    \A n \in 0..MaxIssues :
        ([]<>ReceiptObtained(n)) => ((n \in PendingKeys) ~> (n \notin PendingKeys))

\* The cleanup of the receipt polling effect has cleared the timer that
\* started sweep sw: the effect depends on pendingTxs, and a map other than
\* the one the sweep iterates has been rendered since.
TornDown(sw) == sw.snap # rendered.pendingTxs

\* C24 (as claimed): a sweep that finishes after its timer was torn down
\* modifies neither pendingTxs nor confirmedTxs.
C24_TornDownSweepDiscarded ==
    [][(ev'.op = "sweepDone" /\ \E i \in 1..Len(sweeps) : TornDown(sweeps[i]))
          => UNCHANGED <<pendingTxs, confirmedTxs>>]_vars

\* C25: handleSend assigns sendTimeMs the clock value of the moment signing
\* has resolved and the broadcast is invoked; the number a call signs with is
\* the one captured when it started; pendingTxs gains or changes a record
\* only in the step in which a broadcast resolves, under that call's number
\* and with that call's sendTimeMs, which is not later than the clock then.
C25_SentAtStampedAtBroadcast ==
    /\ [][\A s \in sends : \A t \in sends' :
              t.id = s.id =>
                  /\ t.nonce = s.nonce
                  /\ (s.stage = "sign" /\ t.stage = "broadcast")
                         => /\ t.sendTimeMs = now
                            /\ UNCHANGED <<now, pendingTxs>>
                  /\ (s.stage = "broadcast" /\ t.stage = "broadcast")
                         => t.sendTimeMs = s.sendTimeMs]_vars
    /\ [][(\E n \in MapKeys(pendingTxs') :
               ~MapHas(pendingTxs, n) \/ MapGet(pendingTxs, n) # MapGet(pendingTxs', n))
              => \E s \in sends \ sends' :
                     /\ s.stage = "broadcast"
                     /\ ev' = Event("inserted", s.nonce)
                     /\ MapGet(pendingTxs', s.nonce)
                            = [hash |-> TxHash(s.wallet, s.nonce),
                               sendTimeMs |-> s.sendTimeMs]
                     /\ s.sendTimeMs <= now']_vars

\* A broadcast has just resolved and its record entered pendingTxs at a
\* clock value later than its sendTimeMs.
C25_Witness ==
    /\ ev.op = "inserted"
    /\ MapHas(pendingTxs, ev.arg)
    /\ MapGet(pendingTxs, ev.arg).sendTimeMs < now

\* C26: the guard is set exactly while a sweep is in progress; the step that
\* ends a sweep, by completion or by a rejected lookup, leaves it clear; and
\* a timer tick returns without starting a sweep only while one is in
\* progress.
C26_GuardReleasedWhenSweepEnds ==
    /\ [](isPolling <=> sweeps # << >>)
    /\ [][Len(sweeps') < Len(sweeps) => ~isPolling']_vars
    /\ [][ev'.op = "tickSkipped" => sweeps # << >>]_vars
    /\ [](TimerArmed /\ sweeps = << >> => CanStartSweep)

\* A sweep has just ended by a rejected lookup, the guard is clear and the
\* timer is still armed.
C26_Witness ==
    /\ ev.op = "sweepThrew"
    /\ ~isPolling
    /\ sweeps = << >>
    /\ TimerArmed

\* C27: the step in which a lookup of a sweep rejects changes neither
\* pendingTxs nor confirmedTxs, whatever receipts that sweep had obtained.
C27_ThrownSweepAppliesNothing ==
    [][ev'.op = "sweepThrew" => UNCHANGED <<pendingTxs, confirmedTxs>>]_vars

\* A sweep has just been ended by a rejected lookup after it had obtained
\* the receipt of a record, which is still pending and not confirmed.
C27_Witness ==
    /\ ev.op = "sweepThrew"
    /\ ev.arg # << >>
    /\ \A j \in 1..Len(ev.arg) :
           /\ MapHas(pendingTxs, ev.arg[j].k)
           /\ ~MapHas(confirmedTxs, ev.arg[j].k)

\* C28 (as claimed): the step in which signing or the broadcast of a
\* handleSend call throws changes neither pendingTxs nor confirmedTxs nor the
\* counter, which the call advanced by one when it started; and no later
\* handleSend call signs with the wallet and number of a call that threw.
C28_FailedNumberNeverUsedAgain ==
    /\ [][failed' # failed => UNCHANGED <<pendingTxs, confirmedTxs, nonce>>]_vars
    /\ [][issueCount' = issueCount + 1 =>
              /\ nonce' = nonce + 1
              /\ <<rendered.wallet, rendered.nonce>> \notin failed]_vars

====
